---- MODULE Spec2Model ----
(***************************************************************************)
(* State-machine model of the Gandhi collected-works visualizations:       *)
(*   - KnowledgeGraph            (src/src/graph.js)                        *)
(*   - the tree explorer         (src/unnamed/part_001)                    *)
(*   - the geographic journey    (src/unnamed/part_000)                    *)
(*   - RadialChart               (src/src/radial.js)                       *)
(* Each program is a page of its own; it has its own specification, which  *)
(* leaves the variables of the other programs at their constructed values. *)
(***************************************************************************)
EXTENDS Integers, Sequences, FiniteSets, TLC

\* Longest edge list of edges.json whose average years are computed.
MaxEdges == 3
\* Longest edge list of edges.json loaded into the graph that is then filtered.
MaxGraphEdges == 1
\* Most nodes of the tree of radial_tree.json.
MaxTreeNodes == 5
\* Most documents of journey.json.
MaxDocs == 4
\* Longest edge list of edges.json loaded into the radial chart.
MaxChartEdges == 2
\* Most ticks of the force simulation that are followed.
MaxTicks == 2
\* Longest list of journey points given to selectKeyDocuments.
MaxPoints == 3
\* Most timers of the resize listener that are armed at a time.
MaxTimers == 2

VARIABLES
  \* ---- KnowledgeGraph (src/src/graph.js) ----
  originalNodes,   \* this.originalNodes: the node objects of nodes.json
  originalEdges,   \* this.originalEdges: the edge objects of edges.json
  nodes,           \* this.nodes
  edges,           \* this.edges
  filters,         \* this.filters: [types, year]; year 0 is null
  selectedNode,    \* this.selectedNode: a node id, or "null"
  kgStage,         \* "constructed", "loaded" (loadData returned), "rendered"
  position,        \* x, y, vx, vy of the node object with each id: of the one
                   \* in this.nodes, else of the one in this.originalNodes
  holdsCopies,     \* this.nodes holds the copies made by loadData
  ticks,           \* the ticks the simulation has run
  kgEvent,         \* the last method or callback of the graph that ran
  clearedNode,     \* the selection it cleared, or "null"
  \* ---- the tree explorer (src/unnamed/part_001) ----
  initPc,          \* where init() stands: "fetch", "json", "done", "failed"
  response,        \* the fetch outcome: "pending", "rejected", or the HTTP status
  treeData,        \* treeData: NullTree until response.json() resolved
  root,            \* root: TRUE once d3.hierarchy(treeData) was assigned to it
  children,        \* d.children of every hierarchy node (<< >>: null or undefined)
  _children,       \* d._children of every hierarchy node (<< >>: null or undefined)
  layoutNodes,     \* the nodes of the last update(): root.descendants()
  viewerDoc,       \* the document node shown in #document-content, 0 for the placeholder
  app,             \* #app: "loading", "ui" (buildUI ran) or the error text shown
  resizeTimeout,   \* the debounce timer of the resize listener: "none" or "pending"
  treeEvent,       \* the last event the tree explorer handled
  clickRun,        \* the node clicked last, how often in a row (1 or 2), and
                   \* `children` and `_children` as they were before that
  updateSource,    \* the node the last handler called update() with, 0 for none
  timers,          \* the armed timers of the resize listener, oldest first: the
                   \* milliseconds until each fires
  container,       \* clientWidth of #tree-canvas
  configWidth,     \* CONFIG.width, 0 for null
  burst,           \* the resize events since the last pause of 250 ms: how many
                   \* (2: two or more), whether the last one found treeData set,
                   \* the updates their timers made, the time since the last one
  \* ---- the geographic journey (src/unnamed/part_000) ----
  journeyPc,       \* "loading", "failed", "grouped" (groupByLocation ran last),
                   \* "filtered" (filterByYearRange ran last)
  journeyData,     \* journeyData: << >> for null
  locationGroups,  \* locationGroups, in the order of its keys
  minYear,         \* minYear
  maxYear,         \* maxYear
  currentYearRange,\* currentYearRange
  locationsList,   \* the .location-section elements of #locations-list
  yearSlider,      \* the value of #year-slider
  journeyEvent,    \* the last event the journey page handled
  \* ---- RadialChart (src/src/radial.js) ----
  chartStage,      \* "constructed" or "loaded" (loadData returned)
  chartNodes,      \* this.nodes
  chartEdges,      \* this.edges
  themeHierarchy,  \* this.themeHierarchy, in the order of its keys
  hierarchyData,   \* this.hierarchyData
  \* ---- the graph page (src/src/main.js) ----
  mainPc,          \* where init() stands: "loading", "ready" or "failed"
  files,           \* the d3.json request of each file: "pending", "ok", "rejected"
  loadingText,     \* the text of .loading-text
  spinnerDisplay,  \* style.display of .loading-spinner
  loadingHidden,   \* #loading-screen has the class hidden
  chartRendered,   \* chart.render() ran
  listeners,       \* setupEventListeners() ran
  fitTimeout,      \* the fit-to-view timer: "none", "pending" or "fired"
  currentYear,     \* the text of #current-year, 0 for the page's own
  searchResultsHidden, \* #search-results has the class hidden
  mainEvent,       \* the last listener or timer of the page that ran
  mainError,       \* the error it threw, or "none"
  invoked,         \* the chart method it called, or "none"
  \* ---- KnowledgeGraph.getTimelineX (src/src/graph.js) ----
  timelineWidth,   \* this.width
  timelineNodes,   \* the nodes the x force was evaluated on
  timelineX,       \* their target x, times TimelineScale
  \* ---- selectKeyDocuments (src/src/journey.js) ----
  keyPc,           \* "idle", "loop" (at the test of the for loop) or "returned"
  keyPoints,       \* points
  keyTargetCount,  \* targetCount
  keySelected,     \* selected: the points of the Set, as indices into points,
                   \* in the order they were added
  keyStep,         \* step
  keyI,            \* i
  keyResult        \* the array returned

kgVars == <<originalNodes, originalEdges, nodes, edges, filters, selectedNode, kgStage,
            position, holdsCopies, ticks, kgEvent, clearedNode>>

treeVars == <<initPc, response, treeData, root, children, _children, layoutNodes,
              viewerDoc, app, resizeTimeout, treeEvent, clickRun, updateSource,
              timers, container, configWidth, burst>>

journeyVars == <<journeyPc, journeyData, locationGroups, minYear, maxYear,
                 currentYearRange, locationsList, yearSlider, journeyEvent>>

radialVars == <<chartStage, chartNodes, chartEdges, themeHierarchy, hierarchyData>>

mainVars == <<mainPc, files, loadingText, spinnerDisplay, loadingHidden, chartRendered,
              listeners, fitTimeout, currentYear, searchResultsHidden, mainEvent,
              mainError, invoked>>

timelineVars == <<timelineWidth, timelineNodes, timelineX>>

keyVars == <<keyPc, keyPoints, keyTargetCount, keySelected, keyStep, keyI, keyResult>>

vars == <<kgVars, treeVars, journeyVars, radialVars, mainVars, timelineVars, keyVars>>

\* Each program runs in a page of its own: its actions leave the others alone.
KgOnly == UNCHANGED <<treeVars, journeyVars, radialVars, mainVars, timelineVars, keyVars>>
TreeOnly == UNCHANGED <<kgVars, journeyVars, radialVars, mainVars, timelineVars, keyVars>>
JourneyOnly == UNCHANGED <<kgVars, treeVars, radialVars, mainVars, timelineVars, keyVars>>
RadialOnly == UNCHANGED <<kgVars, treeVars, journeyVars, mainVars, timelineVars, keyVars>>
\* The graph page owns a RadialChart.
MainOnly == UNCHANGED <<kgVars, treeVars, journeyVars, timelineVars, keyVars>>

(***************************************************************************)
(* Helpers on sequences.                                                   *)
(***************************************************************************)
Range(s) == {s[i] : i \in DOMAIN s}

SeqsUpTo(S, n) == UNION {[1..k -> S] : k \in 0..n}

(***************************************************************************)
(*                 KnowledgeGraph  (src/src/graph.js)                      *)
(***************************************************************************)

\* A node of nodes.json.  hasProps: the node carries a `properties` object;
\* year 0 / avgYear 0: the property is absent (JavaScript reads both as falsy).
Node(id, type, hasProps, year) ==
  [id |-> id, type |-> type, hasProps |-> hasProps, year |-> year, avgYear |-> 0]

\* Node lists for calculateAverageYears: two documents (the second with or
\* without a year), a theme and a person (with or without a `properties`
\* object).
AverageNodeInputs ==
  { << Node("d1", "document", TRUE, 1900),
       Node("d2", "document", TRUE, y2),
       Node("t1", "theme", TRUE, 0),
       Node("p1", "person", pp, 0) >> : y2 \in {0, 1921}, pp \in BOOLEAN }

\* Node lists for the filtered graph: two documents, a theme (with or without a
\* `properties` object) and an event.
GraphNodeInputs ==
  { << Node("d1", "document", TRUE, 1900),
       Node("d2", "document", TRUE, 1921),
       Node("t1", "theme", pp, 0),
       Node("e1", "event", TRUE, 1910) >> : pp \in BOOLEAN }

IdsOf(ns) == {ns[i].id : i \in DOMAIN ns}

\* An end of an edge: the node id as written in edges.json (a string), or, once
\* the force simulation has initialised the link, the node object with that id.
End(id) == [object |-> FALSE, id |-> id]

Edge(s, t) == [source |-> End(s), target |-> End(t)]

\* The edge lists of at most n edges between distinct nodes of ns.
EdgeInputs(ns, n) ==
  SeqsUpTo({Edge(p[1], p[2]) : p \in {q \in IdsOf(ns) \X IdsOf(ns) : q[1] # q[2]}}, n)

\* constructor: this.filters
DefaultFilters == [types |-> {"theme", "person", "event", "period"}, year |-> 0]

\* The value of find() when no element matches.
Undefined == [id |-> "undefined", type |-> "undefined", hasProps |-> FALSE,
              year |-> 0, avgYear |-> 0]

\* this.nodes.find(n => n.id === end): the first node whose id is the string
\* `end`; no id equals a node object.
FindNode(ns, end) ==
  IF ~end.object /\ \E i \in DOMAIN ns : ns[i].id = end.id
    THEN ns[CHOOSE i \in DOMAIN ns :
              ns[i].id = end.id /\ \A j \in 1..(i - 1) : ns[j].id # end.id]
    ELSE Undefined

IsThemeOrPerson(n) == n.type = "theme" \/ n.type = "person"

\* What one edge adds to yearSums[id] (graph.js 221-238): the year of the
\* document at the other end, once for each end at which the edge matches.
EdgeYear(ns, e, id) ==
  LET s == FindNode(ns, e.source)
      t == FindNode(ns, e.target)
  IN (IF s.type = "document" /\ s.year # 0 /\ IsThemeOrPerson(t) /\ t.id = id
        THEN s.year ELSE 0)
   + (IF t.type = "document" /\ t.year # 0 /\ IsThemeOrPerson(s) /\ s.id = id
        THEN t.year ELSE 0)

\* What one edge adds to yearCounts[id].
EdgeCount(ns, e, id) ==
  LET s == FindNode(ns, e.source)
      t == FindNode(ns, e.target)
  IN (IF s.type = "document" /\ s.year # 0 /\ IsThemeOrPerson(t) /\ t.id = id
        THEN 1 ELSE 0)
   + (IF t.type = "document" /\ t.year # 0 /\ IsThemeOrPerson(s) /\ s.id = id
        THEN 1 ELSE 0)

RECURSIVE YearSums(_, _, _)
YearSums(ns, es, id) ==
  IF es = << >> THEN 0
  ELSE YearSums(ns, SubSeq(es, 1, Len(es) - 1), id) + EdgeYear(ns, es[Len(es)], id)

RECURSIVE YearCounts(_, _, _)
YearCounts(ns, es, id) ==
  IF es = << >> THEN 0
  ELSE YearCounts(ns, SubSeq(es, 1, Len(es) - 1), id) + EdgeCount(ns, es[Len(es)], id)

\* A mutant of MathRound: Math.floor(sum / count).
MathFloor(sum, count) == sum \div count

\* Math.round(sum / count) for positive sum and count: halves round up.
MathRound(sum, count) == (2 * sum + count) \div (2 * count)

\* calculateAverageYears, on the node n of this.nodes: its avgYear afterwards.
AverageYear(ns, es, n) ==
  IF IsThemeOrPerson(n) /\ YearCounts(ns, es, n.id) > 0
    THEN MathRound(YearSums(ns, es, n.id), YearCounts(ns, es, n.id))
    ELSE n.avgYear

\* this.nodes after calculateAverageYears: a node without `properties` gets a
\* fresh properties object to hold avgYear.
CalculateAverageYears(ns, es) ==
  [i \in DOMAIN ns |->
     LET a == AverageYear(ns, es, ns[i])
     IN [ns[i] EXCEPT !.avgYear = a,
                      !.hasProps = ns[i].hasProps \/ (a # ns[i].avgYear)]]

\* The objects of originalNodes after calculateAverageYears ran on the copies:
\* {...node} copies the reference to `properties`, so an avgYear written into an
\* existing properties object shows in the original; one written into a fresh
\* properties object does not.
SharedProperties(orig, copies) ==
  [i \in DOMAIN orig |->
     IF orig[i].hasProps THEN [orig[i] EXCEPT !.avgYear = copies[i].avgYear]
     ELSE orig[i]]

\* The x, y, vx and vy of a node object; Unplaced: x and y are undefined.
Position(x, y, vx, vy) == [set |-> TRUE, x |-> x, y |-> y, vx |-> vx, vy |-> vy]

Unplaced == [set |-> FALSE, x |-> 0, y |-> 0, vx |-> 0, vy |-> 0]

\* What (Math.random() - 0.5) * 300 gave for the x and the y of the i-th node,
\* in the draws that are followed.
Spreads(ns) == {[i \in DOMAIN ns |-> <<10 * i, 0 - 10 * i>>]}

\* loadData 175-187: the copies start around the centre, at rest.
StartPositions(ns, spread) ==
  [id \in IdsOf(ns) |->
     LET i == CHOOSE k \in DOMAIN ns : ns[k].id = id
     IN Position(400 + spread[i][1], 300 + spread[i][2], 0, 0)]

\* loadData(nodesPath, edgesPath) with both fetches succeeding and returning the
\* node list ns and the edge list es.
LoadDataFrom(ns, es) ==
  LET copied == CalculateAverageYears(ns, es)
  IN /\ kgStage = "constructed"
     /\ originalNodes' = SharedProperties(ns, copied)
     /\ originalEdges' = es
     /\ nodes' = copied
     /\ edges' = es
     /\ kgStage' = "loaded"
     /\ \E spread \in Spreads(ns) : position' = StartPositions(ns, spread)
     /\ holdsCopies' = TRUE
     /\ kgEvent' = "loadData"
     /\ clearedNode' = "null"
     /\ UNCHANGED <<filters, selectedNode, ticks>>

\* loadData on the inputs whose average years are examined.
LoadData ==
  /\ KgOnly
  /\ kgStage = "constructed"
  /\ \E ns \in AverageNodeInputs :
       \E es \in EdgeInputs(ns, MaxEdges) : LoadDataFrom(ns, es)

\* The edge lists of at most n edges for the filtered graph: between the two
\* documents, from a document to the theme, from the theme to the event and
\* from the event to a document.
GraphEdgeInputs(n) ==
  SeqsUpTo({Edge("d1", "d2"), Edge("d2", "t1"), Edge("t1", "e1"), Edge("e1", "d1")}, n)

\* loadData on the inputs of the graph that is then rendered and filtered.
LoadGraph ==
  /\ KgOnly
  /\ kgStage = "constructed"
  /\ \E ns \in GraphNodeInputs :
       \E es \in GraphEdgeInputs(MaxGraphEdges) : LoadDataFrom(ns, es)

\* forceLink initialize(), run by this.simulation.force('link').links(edges):
\* the ends of the edge object become the node objects.
Initialized(e) ==
  [source |-> [e.source EXCEPT !.object = TRUE],
   target |-> [e.target EXCEPT !.object = TRUE]]

\* The edge objects of originalEdges after the links given to the simulation
\* were initialised: this.edges holds the same objects as originalEdges.
LinksInitialized(orig, given) ==
  [i \in DOMAIN orig |-> IF given[i] THEN Initialized(orig[i]) ELSE orig[i]]

\* A mutant of NodeVisible: the type filter applies to documents too.
NodeOfVisibleType(n, f) ==
  /\ n.type \in f.types
  /\ ~(f.year # 0 /\ n.year # 0 /\ n.year > f.year)

\* The filter callback of applyFilters on nodes (graph.js 473-504).
NodeVisible(n, f) ==
  IF n.type = "document"
    THEN ~(f.year # 0 /\ n.year # 0 /\ n.year > f.year)
    ELSE /\ n.type \in f.types
         /\ ~(f.year # 0 /\ n.year # 0 /\ n.year > f.year)

\* typeof edge.source === 'object' ? edge.source.id : edge.source
SourceId(e) == IF e.source.object THEN e.source.id ELSE e.source.id
TargetId(e) == IF e.target.object THEN e.target.id ELSE e.target.id

\* A mutant of EdgeVisible: an edge is kept when either end is visible.
EdgeVisibleEither(e, nodeIds) == SourceId(e) \in nodeIds \/ TargetId(e) \in nodeIds

\* The filter callback of applyFilters on edges (graph.js 519-523).
EdgeVisible(e, nodeIds) == SourceId(e) \in nodeIds /\ TargetId(e) \in nodeIds

\* render() on the loaded data: the simulation gets this.nodes and this.edges.
\* (applyFilters runs render() itself; to render again changes nothing.)
Render ==
  /\ KgOnly
  /\ kgStage = "loaded"
  /\ originalEdges' =
       LinksInitialized(originalEdges,
         [i \in DOMAIN originalEdges |->
            \E j \in DOMAIN edges : edges[j] = originalEdges[i]])
  /\ edges' = [j \in DOMAIN edges |-> Initialized(edges[j])]
  /\ kgStage' = "rendered"
  /\ kgEvent' = "render"
  /\ clearedNode' = "null"
  /\ UNCHANGED <<originalNodes, nodes, filters, selectedNode, position, holdsCopies, ticks>>

\* A mutant of NodePositions: no position is stored.
NoPositions == {}

\* The keys of nodePositions (graph.js 465-470): the nodes of this.nodes whose
\* x and y are not undefined.
NodePositions == {id \in IdsOf(nodes) : position[id].set}

\* graph.js 510-513: x and y from savedPos, vx and vy from savedPos or else 0.
Restored(savedPos) ==
  [savedPos EXCEPT !.vx = IF savedPos.vx # 0 THEN savedPos.vx ELSE 0,
                   !.vy = IF savedPos.vy # 0 THEN savedPos.vy ELSE 0]

\* simulation.nodes(this.nodes), called by render(): the i-th node gets a place
\* of the simulation's choosing when its x or y is not a number.
InitializeNodes(ns, i, pos) ==
  IF pos.set THEN pos ELSE Position(10 * i, 0 - 10 * i, 0, 0)

\* The fields of the object of this.originalNodes with the given id: the copies
\* made by loadData took x and y, the originals did not.
OriginalPosition(id) == IF holdsCopies THEN Unplaced ELSE position[id]

\* applyFilters after this.filters became f: the nodes and edges are filtered
\* from the originals, the saved positions are put back and render() runs.
Filtered(f) ==
  LET ns == SelectSeq(originalNodes, LAMBDA n : NodeVisible(n, f))
      nodeIds == IdsOf(ns)
      kept == SelectSeq(originalEdges, LAMBDA e : EdgeVisible(e, nodeIds))
  IN /\ filters' = f
     /\ position' =
          [id \in DOMAIN position |->
             IF id \in nodeIds
               THEN InitializeNodes(ns, CHOOSE i \in DOMAIN ns : ns[i].id = id,
                      IF id \in NodePositions THEN Restored(position[id])
                      ELSE OriginalPosition(id))
               ELSE OriginalPosition(id)]
     /\ holdsCopies' = FALSE
     /\ nodes' = ns
     /\ edges' = [j \in DOMAIN kept |-> Initialized(kept[j])]
     /\ originalEdges' =
          LinksInitialized(originalEdges,
            [i \in DOMAIN originalEdges |-> EdgeVisible(originalEdges[i], nodeIds)])
     /\ kgStage' = "rendered"
     /\ UNCHANGED originalNodes

\* The years the timeline slider is moved to.
SliderYears == {1905, 1915}

\* applyFilters({types}) and applyFilters({year}): this.filters is merged with
\* the argument.
ApplyFilters ==
  /\ KgOnly
  /\ kgStage # "constructed"
  /\ \/ \E ts \in SUBSET DefaultFilters.types :
          Filtered([filters EXCEPT !.types = ts])
     \/ \E y \in SliderYears :
          Filtered([filters EXCEPT !.year = y])
  /\ kgEvent' = "applyFilters"
  /\ clearedNode' = "null"
  /\ UNCHANGED <<selectedNode, ticks>>

\* A mutant of ClearHighlight: the selection stays.
KeepHighlight(selected) == selected

\* clearHighlight(): this.selectedNode afterwards.
ClearHighlight(selected) == "null"

\* reset(): clearHighlight, the default filters, applyFilters(this.filters).
Reset ==
  /\ KgOnly
  /\ kgStage # "constructed"
  /\ selectedNode' = ClearHighlight(selectedNode)
  /\ Filtered(DefaultFilters)
  /\ kgEvent' = "reset"
  /\ clearedNode' = selectedNode
  /\ UNCHANGED ticks

\* Node lists for the graph that is clicked: two documents, a theme without a
\* year and a period.
ViewNodeInputs ==
  { << Node("d1", "document", TRUE, 1900),
       Node("d2", "document", TRUE, 1921),
       Node("t1", "theme", TRUE, 0),
       Node("1910s", "period", TRUE, 1910) >> }

\* Edge lists for it.
ViewEdgeInputs == { << Edge("d2", "t1"), Edge("d1", "1910s") >> }

\* loadData on these inputs.
LoadView ==
  /\ KgOnly
  /\ kgStage = "constructed"
  /\ \E ns \in ViewNodeInputs : \E es \in ViewEdgeInputs : LoadDataFrom(ns, es)

\* onNodeClick(event, node) on a rendered node.
OnNodeClick ==
  /\ KgOnly
  /\ kgStage = "rendered"
  /\ \E i \in DOMAIN nodes : selectedNode' = nodes[i].id
  /\ kgEvent' = "onNodeClick"
  /\ clearedNode' = "null"
  /\ UNCHANGED <<originalNodes, originalEdges, nodes, edges, filters, kgStage,
                 position, holdsCopies, ticks>>

\* Node lists for the graph whose nodes move: a document and a theme.
MoveNodeInputs ==
  { << Node("d1", "document", TRUE, 1900), Node("t1", "theme", TRUE, 0) >> }

\* loadData on these inputs.
LoadMove ==
  /\ KgOnly
  /\ kgStage = "constructed"
  /\ \E ns \in MoveNodeInputs : LoadDataFrom(ns, << Edge("d1", "t1") >>)

\* One tick of the simulation on a node: the forces change its velocity, the
\* velocity its place.
Moved(pos, dv) ==
  Position(pos.x + pos.vx + dv, pos.y + pos.vy - dv, pos.vx + dv, pos.vy - dv)

\* A tick of the simulation restarted by render(): it moves the nodes of
\* this.nodes.
Tick ==
  /\ KgOnly
  /\ kgStage = "rendered"
  /\ ticks < MaxTicks
  /\ nodes # << >>
  /\ ticks' = ticks + 1
  /\ \E dv \in {1, 2} :
       position' = [id \in DOMAIN position |->
                      IF id \in IdsOf(nodes) THEN Moved(position[id], dv)
                      ELSE position[id]]
  /\ kgEvent' = "tick"
  /\ clearedNode' = "null"
  /\ UNCHANGED <<originalNodes, originalEdges, nodes, edges, filters, selectedNode,
                 kgStage, holdsCopies>>

KgInit ==
  /\ originalNodes = << >>
  /\ originalEdges = << >>
  /\ nodes = << >>
  /\ edges = << >>
  /\ filters = DefaultFilters
  /\ selectedNode = "null"
  /\ kgStage = "constructed"
  /\ position = << >>
  /\ holdsCopies = FALSE
  /\ ticks = 0
  /\ kgEvent = "constructor"
  /\ clearedNode = "null"

(***************************************************************************)
(*                 The tree explorer  (src/unnamed/part_001)               *)
(***************************************************************************)

\* treeData before the data arrived.
NullTree == [parent |-> << >>, doc |-> {}]

\* The trees of radial_tree.json: node 1 is the root, parent[i] is the parent of
\* node i (0 for the root), nodes are numbered level by level, the root has at
\* least one child, and doc is the set of leaves that carry a document.
Kids(t, n) == SelectSeq([i \in DOMAIN t.parent |-> i], LAMBDA i : t.parent[i] = n)

Leaves(t) == {n \in DOMAIN t.parent : Kids(t, n) = << >>}

TreeShapes ==
  UNION {
    {p \in [1..k -> 0..(k - 1)] :
       /\ p[1] = 0
       /\ \A i \in 2..k : p[i] >= 1 /\ p[i] < i
       /\ \A i \in 2..(k - 1) : p[i] <= p[i + 1]} : k \in 2..MaxTreeNodes}

TreeInputs ==
  UNION {{[parent |-> p, doc |-> ds] : ds \in SUBSET Leaves([parent |-> p, doc |-> {}])}
           : p \in TreeShapes}

TreeNodes == DOMAIN treeData.parent

RECURSIVE Depth(_, _)
Depth(t, n) == IF t.parent[n] = 0 THEN 0 ELSE 1 + Depth(t, t.parent[n])

\* root.descendants(): the nodes reached from the root through `children`.
RECURSIVE Reach(_, _, _)
Reach(links, frontier, seen) ==
  IF frontier = {} THEN seen
  ELSE LET next == UNION {Range(links[n]) : n \in frontier} \ seen
       IN Reach(links, next, seen \cup next)

Descendants(ch) == Reach(ch, {1}, {1})

\* d3.hierarchy(treeData): every node with a non-empty data.children array gets
\* `children`; no node has `_children`.
Hierarchy(t) == [n \in DOMAIN t.parent |-> Kids(t, n)]

NoLinks(t) == [n \in DOMAIN t.parent |-> << >>]

\* The nodes visited by root.descendants().forEach(d => { if (d.depth > 0) ... }).
CollapseVisits(t, ch) == {d \in Descendants(ch) : Depth(t, d) > 0}

\* `children` after the loop ran d.children = null on the visited nodes.
CollapsedChildren(t, ch) ==
  [d \in DOMAIN t.parent |-> IF d \in CollapseVisits(t, ch) THEN << >> ELSE ch[d]]

\* `_children` after the loop ran d._children = d.children on the visited nodes.
ParkedChildren(t, ch, parked) ==
  [d \in DOMAIN t.parent |-> IF d \in CollapseVisits(t, ch) THEN ch[d] ELSE parked[d]]

\* The text of the error init() catches.
HttpError(status) == "HTTP error! status: " \o ToString(status)

NetworkError == "Failed to fetch"

SyntaxError == "Unexpected token < in JSON"

\* #app after the catch block of init().
ErrorView(message) == "Error loading data: " \o message

\* The catch block of init().
InitFails(message) ==
  /\ initPc' = "failed"
  /\ app' = ErrorView(message)
  /\ UNCHANGED <<treeData, root, children, _children, layoutNodes, viewerDoc>>

\* init(): await fetch(...) settles; a rejection or a response that is not ok
\* goes to the catch block.
FetchSettles ==
  /\ TreeOnly
  /\ initPc = "fetch"
  /\ treeEvent' = "fetch"
  /\ UNCHANGED <<resizeTimeout, clickRun, updateSource, timers, container, configWidth,
                 burst>>
  /\ \/ /\ response' = "rejected"
        /\ InitFails(NetworkError)
     \/ \E status \in {404, 500} :
          /\ response' = ToString(status)
          /\ InitFails(HttpError(status))
     \/ /\ response' = ToString(200)
        /\ initPc' = "json"
        /\ UNCHANGED <<treeData, root, children, _children, layoutNodes, viewerDoc, app>>

\* init(): await response.json() settles; on success treeData is set and
\* buildUI() and createVisualization() run: the hierarchy is built, every node
\* of depth > 0 is collapsed, update(root) lays out root.descendants().
JsonSettles ==
  /\ TreeOnly
  /\ initPc = "json"
  /\ treeEvent' = "json"
  /\ UNCHANGED <<response, resizeTimeout, clickRun, timers, container, burst>>
  /\ \/ InitFails(SyntaxError)
     \/ \E t \in TreeInputs :
          /\ treeData' = t
          /\ app' = "ui"
          /\ root' = TRUE
          /\ children' = CollapsedChildren(t, Hierarchy(t))
          /\ _children' = ParkedChildren(t, Hierarchy(t), NoLinks(t))
          /\ layoutNodes' = Descendants(children')
          /\ viewerDoc' = 0
          /\ initPc' = "done"
  /\ updateSource' = IF initPc' = "done" THEN 1 ELSE 0
  /\ configWidth' = IF initPc' = "done" THEN container ELSE configWidth

\* No click has been handled since the last other event.
NoRun == [node |-> 0, count |-> 0, children |-> << >>, _children |-> << >>]

\* A mutant of IsDocument: no node is taken for a document.
NeverDocument(d) == FALSE

\* if (d.data.doc)
IsDocument(d) == d \in treeData.doc

\* A mutant of Truthy: every list of children passes the test.
AlwaysTruthy(list) == TRUE

\* if (d.children), if (d._children): null and undefined are falsy.
Truthy(list) == list # << >>

\* click(event, d) on the node element of d (part_001 379-403).
Click(d) ==
  /\ TreeOnly
  /\ app = "ui" /\ root
  /\ d \in layoutNodes
  /\ treeEvent' = "click"
  /\ clickRun' = IF clickRun.node = d /\ clickRun.count = 1
                 THEN [clickRun EXCEPT !.count = 2]
                 ELSE [node |-> d, count |-> 1, children |-> children,
                       _children |-> _children]
  /\ UNCHANGED <<initPc, response, treeData, root, app, resizeTimeout, timers,
                 container, configWidth, burst>>
  /\ IF IsDocument(d)
       THEN /\ viewerDoc' = d
            /\ updateSource' = 0
            /\ UNCHANGED <<children, _children, layoutNodes>>
       ELSE /\ IF Truthy(children[d])
                 THEN /\ _children' = [_children EXCEPT ![d] = children[d]]
                      /\ children' = [children EXCEPT ![d] = << >>]
                 ELSE IF Truthy(_children[d])
                   THEN /\ children' = [children EXCEPT ![d] = _children[d]]
                        /\ _children' = [_children EXCEPT ![d] = << >>]
                   ELSE UNCHANGED <<children, _children>>
            /\ layoutNodes' = Descendants(children')
            /\ updateSource' = d
            /\ UNCHANGED viewerDoc

\* window.resetTree() (part_001 136-167), called by the Reset View button.
ResetTree ==
  /\ TreeOnly
  /\ app = "ui" /\ root
  /\ treeEvent' = "reset"
  /\ clickRun' = NoRun
  /\ updateSource' = 1
  /\ _children' = ParkedChildren(treeData, children, _children)
  /\ children' = CollapsedChildren(treeData, children)
  /\ viewerDoc' = 0
  /\ layoutNodes' = Descendants(children')
  /\ UNCHANGED <<initPc, response, treeData, root, app, resizeTimeout, timers,
                 container, configWidth, burst>>

\* A mutant of ResizeArms: the listener without its `if (!treeData) return`.
ResizeAlwaysArms == TRUE

\* The resize listener arms its timer only once treeData is set.
ResizeArms == treeData # NullTree

\* setTimeout(..., 250): the delay of the resize timer, in milliseconds.
ResizeDelay == 250

\* The steps in which time passes.
Elapses == {125, 250}

\* The widths a resize gives #tree-canvas.
CanvasWidths == {800, 1200}

\* No resize event yet.
NoBurst == [events |-> 0, armed |-> FALSE, updates |-> 0, sinceLast |-> 0]

\* A resize event belongs to the burst of the one before it when less than
\* ResizeDelay has passed since.
InBurst == burst.events > 0 /\ burst.sinceLast < ResizeDelay

\* A mutant of ClearTimeout: the timer stays armed.
KeepTimeout(queue) == queue

\* clearTimeout(resizeTimeout): resizeTimeout is the timer armed last; to clear
\* a timer that fired, or undefined, does nothing.
ClearTimeout(queue) ==
  IF resizeTimeout = "pending" THEN SubSeq(queue, 1, Len(queue) - 1) ELSE queue

\* The resize listener (part_001 551-568): clearTimeout, setTimeout(..., 250).
\* A timer that is due runs before the next event is handled.
Resize ==
  /\ TreeOnly
  /\ \A k \in DOMAIN timers : timers[k] > 0
  /\ Len(ClearTimeout(timers)) < MaxTimers
  /\ treeEvent' = "resize"
  /\ clickRun' = NoRun
  /\ updateSource' = 0
  /\ \E width \in CanvasWidths : container' = width
  /\ resizeTimeout' = IF ResizeArms THEN "pending" ELSE resizeTimeout
  /\ timers' = IF ResizeArms THEN Append(ClearTimeout(timers), ResizeDelay) ELSE timers
  /\ burst' = IF InBurst
               THEN [burst EXCEPT !.events = 2, !.armed = ResizeArms, !.sinceLast = 0]
               ELSE [events |-> 1, armed |-> ResizeArms, updates |-> 0, sinceLast |-> 0]
  /\ UNCHANGED <<initPc, response, treeData, root, children, _children, layoutNodes,
                 viewerDoc, app, configWidth>>

\* Time passes, up to the moment the next timer is due; it is followed for
\* ResizeDelay after a resize event.
TimePasses ==
  /\ TreeOnly
  /\ InBurst
  /\ \E dt \in Elapses :
       /\ burst.sinceLast + dt <= ResizeDelay
       /\ \A k \in DOMAIN timers : dt <= timers[k]
       /\ timers' = [k \in DOMAIN timers |-> timers[k] - dt]
       /\ burst' = [burst EXCEPT !.sinceLast = @ + dt]
  /\ UNCHANGED <<initPc, response, treeData, root, children, _children, layoutNodes,
                 viewerDoc, app, resizeTimeout, treeEvent, clickRun, updateSource,
                 container, configWidth>>

\* The oldest timer of the resize listener fires: it reads the size of the
\* container into CONFIG and calls update(root).  With no #tree-canvas it
\* throws before it changes anything.
ResizeTimer ==
  /\ TreeOnly
  /\ timers # << >>
  /\ timers[1] = 0
  /\ timers' = Tail(timers)
  /\ resizeTimeout' = IF Len(timers) = 1 THEN "none" ELSE resizeTimeout
  /\ treeEvent' = "timer"
  /\ clickRun' = NoRun
  /\ configWidth' = IF root THEN container ELSE configWidth
  /\ updateSource' = IF root THEN 1 ELSE 0
  /\ layoutNodes' = IF root THEN Descendants(children) ELSE layoutNodes
  /\ burst' = IF root THEN [burst EXCEPT !.updates = IF @ < 2 THEN @ + 1 ELSE 2]
               ELSE burst
  /\ UNCHANGED <<initPc, response, treeData, root, children, _children, viewerDoc, app,
                 container>>

\* The page after the module ran: init() waits for fetch().
TreeInit ==
  /\ initPc = "fetch"
  /\ response = "pending"
  /\ treeData = NullTree
  /\ root = FALSE
  /\ children = << >>
  /\ _children = << >>
  /\ layoutNodes = {}
  /\ viewerDoc = 0
  /\ app = "loading"
  /\ resizeTimeout = "none"
  /\ treeEvent = "none"
  /\ clickRun = NoRun
  /\ updateSource = 0
  /\ timers = << >>
  /\ container = 1200
  /\ configWidth = 0
  /\ burst = NoBurst

TreeNext ==
  \/ FetchSettles
  \/ JsonSettles
  \/ \E d \in TreeNodes : Click(d)
  \/ ResetTree

\* The tree explorer while its window is resized.
ResizeNext ==
  \/ FetchSettles
  \/ JsonSettles
  \/ Resize
  \/ TimePasses
  \/ ResizeTimer

(***************************************************************************)
(*          KnowledgeGraph.getTimelineX  (src/src/graph.js 114-142)        *)
(***************************************************************************)

\* const minYear = 1884; const maxYear = 1929; const margin = 100;
TimelineMinYear == 1884
TimelineMaxYear == 1929
TimelineMargin == 100

\* The positions are kept as multiples of 1 / TimelineScale, so that the
\* division by yearRange and the half year of the default stay integers.
TimelineScale == 2 * (TimelineMaxYear - TimelineMinYear)

\* this.width: the width of the container, 800 when it has none.
Widths == {320, 800, 1200}

\* A node as getTimelineX reads it: its type, and properties.year or
\* properties.avgYear (0 when missing).
TimelineNode(type, year) ==
  [Node("n", type, TRUE, IF type \in {"theme", "person"} THEN 0 ELSE year)
     EXCEPT !.avgYear = IF type \in {"theme", "person"} THEN year ELSE 0]

\* The nodes positioned: decade years for periods, the years of the corpus.
TimelineNodeInputs ==
  {TimelineNode(type, year) :
     type \in {"period", "document", "event", "theme", "person", "location"},
     year \in {0, 1880, 1884, 1900, 1929, 1948}}

\* Twice the `year` getTimelineX settles on.
TimelineYear2(node) ==
  IF node.type \in {"period", "document", "event"}
  THEN (IF node.hasProps /\ node.year # 0 THEN 2 * node.year ELSE 2 * TimelineMinYear)
  ELSE IF node.type \in {"theme", "person"}
  THEN (IF node.hasProps /\ node.avgYear # 0 THEN 2 * node.avgYear
        ELSE 2 * TimelineMinYear + (TimelineMaxYear - TimelineMinYear))
  ELSE TimelineMinYear + TimelineMaxYear

\* getTimelineX(node), times TimelineScale:
\* margin + ((year - minYear) / yearRange) * xRange.
GetTimelineX(node, width) ==
  TimelineScale * TimelineMargin
    + (TimelineYear2(node) - 2 * TimelineMinYear) * (width - 2 * TimelineMargin)

\* d3.forceX(d => this.getTimelineX(d)) evaluated on two nodes of a graph.
ForceX ==
  /\ timelineNodes = << >>
  /\ \E width \in Widths, ns \in [1..2 -> TimelineNodeInputs] :
       /\ timelineWidth' = width
       /\ timelineNodes' = ns
       /\ timelineX' = [i \in DOMAIN ns |-> GetTimelineX(ns[i], width)]
  /\ UNCHANGED <<kgVars, treeVars, journeyVars, radialVars, mainVars, keyVars>>

TimelineInit ==
  /\ timelineWidth = 800
  /\ timelineNodes = << >>
  /\ timelineX = << >>

TimelineNext == ForceX

(***************************************************************************)
(*            The geographic journey  (src/unnamed/part_000)               *)
(***************************************************************************)

\* A journey point of journey.json.  location is the place name, cut into
\* runs of characters so that a white-space character is a run of its own;
\* year 0 is a missing year; sortDate is the normalized date "YYYY-MM-DD",
\* kept as <<year, day of the year>>; themes is the array of theme names.
JourneyPoint(id, location, year, sortDate, themes) ==
  [id |-> id, location |-> location, year |-> year, sortDate |-> sortDate,
   themes |-> themes]

\* The documents journey.json is made of.
JourneyPoints ==
  { JourneyPoint("doc1", <<"Durban">>, 1900, <<1900, 32>>, <<"Satyagraha">>),
    JourneyPoint("doc2", <<"Durban">>, 1903, <<1903, 1>>, <<"Satyagraha", "Religion">>),
    JourneyPoint("doc3", <<"Dar", " ", "es", " ", "Salaam">>, 1906, <<1906, 1>>,
                 <<"Religion">>),
    JourneyPoint("doc4", <<"Dar", "-", "es", "-", "Salaam">>, 1903, <<1903, 120>>,
                 <<"Satyagraha">>),
    JourneyPoint("doc5", <<"Durban">>, 0, <<1900, 1>>, << >>) }

\* data.journeyPoints: documents in any order, each at most once, at least one
\* of them dated.
JourneyInputs ==
  {s \in SeqsUpTo(JourneyPoints, MaxDocs) :
     /\ \A i, j \in DOMAIN s : s[i] = s[j] => i = j
     /\ \E i \in DOMAIN s : s[i].year # 0}

\* a.localeCompare(b) on two normalized dates: -1, 0 or 1.
LocaleCompare(a, b) ==
  IF a[1] # b[1] THEN (IF a[1] < b[1] THEN -1 ELSE 1)
  ELSE IF a[2] # b[2] THEN (IF a[2] < b[2] THEN -1 ELSE 1)
  ELSE 0

\* A mutant of Sort: the array is left in the order it had.
Unsorted(s, cmp) == s

\* Array.prototype.sort: cmp[i, j] is what the comparator returns for s[i] and
\* s[j]; the sort is stable.
Sort(s, cmp) ==
  LET Rank(i) == 1 + Cardinality({j \in DOMAIN s :
                       cmp[j, i] < 0 \/ (cmp[j, i] = 0 /\ j < i)})
  IN [p \in DOMAIN s |-> s[CHOOSE i \in DOMAIN s : Rank(i) = p]]

\* locationGroups[loc]: the index of the group of that name, 0 when undefined.
GroupIndex(groups, loc) ==
  IF \E g \in DOMAIN groups : groups[g].name = loc
  THEN CHOOSE g \in DOMAIN groups : groups[g].name = loc
  ELSE 0

\* A mutant of CountThemes: only the first theme of the document is counted.
CountFirstTheme(themes, docThemes, doc) ==
  IF docThemes = << >> THEN themes
  ELSE IF \E k \in DOMAIN themes : themes[k].theme = Head(docThemes)
       THEN [k \in DOMAIN themes |->
               IF themes[k].theme = Head(docThemes)
               THEN [themes[k] EXCEPT !.docs = Append(@, doc)] ELSE themes[k]]
       ELSE Append(themes, [theme |-> Head(docThemes), docs |-> <<doc>>])

\* doc.themes.forEach(theme => ...): every theme of the document gets the
\* document pushed to its entry, the entry being created when it is missing.
RECURSIVE CountThemes(_, _, _)
CountThemes(themes, docThemes, doc) ==
  IF docThemes = << >> THEN themes
  ELSE LET theme == Head(docThemes)
           withEntry == IF \E k \in DOMAIN themes : themes[k].theme = theme
                        THEN themes
                        ELSE Append(themes, [theme |-> theme, docs |-> << >>])
           k == CHOOSE k \in DOMAIN withEntry : withEntry[k].theme = theme
       IN CountThemes([withEntry EXCEPT ![k].docs = Append(@, doc)],
                      Tail(docThemes), doc)

\* A mutant of AddDoc: a document is kept only when it is the first of its
\* location.
AddFirstDoc(groups, doc) ==
  IF GroupIndex(groups, doc.location) = 0
  THEN Append(groups, [name |-> doc.location, documents |-> <<doc>>,
                       themes |-> CountThemes(<< >>, doc.themes, doc)])
  ELSE groups

\* The body of journeyData.forEach(doc => ...): the group of doc.location is
\* created when it is missing, the document is pushed to it and its themes
\* are counted.
AddDoc(groups, doc) ==
  LET withGroup == IF GroupIndex(groups, doc.location) = 0
                   THEN Append(groups, [name |-> doc.location, documents |-> << >>,
                                        themes |-> << >>])
                   ELSE groups
      g == GroupIndex(withGroup, doc.location)
  IN [withGroup EXCEPT ![g].documents = Append(@, doc),
                       ![g].themes = CountThemes(@, doc.themes, doc)]

RECURSIVE AddDocs(_, _)
AddDocs(groups, docs) ==
  IF docs = << >> THEN groups ELSE AddDocs(AddDoc(groups, Head(docs)), Tail(docs))

\* (a, b) => a.sortDate.localeCompare(b.sortDate)
BySortDate(docs) ==
  [i \in DOMAIN docs, j \in DOMAIN docs |->
     LocaleCompare(docs[i].sortDate, docs[j].sortDate)]

\* (a, b) => a.documents[0].sortDate.localeCompare(b.documents[0].sortDate)
ByEarliest(groups) ==
  [i \in DOMAIN groups, j \in DOMAIN groups |->
     LocaleCompare(groups[i].documents[1].sortDate, groups[j].documents[1].sortDate)]

\* The grouping groupByLocation and filterByYearRange both do: the groups in
\* the order their locations first occur, each group's documents sorted by
\* date, then the groups sorted by their earliest document and re-inserted
\* into locationGroups in that order.
GroupDocs(docs) ==
  LET grouped == AddDocs(<< >>, docs)
      dated == [g \in DOMAIN grouped |->
                  [grouped[g] EXCEPT !.documents = Sort(@, BySortDate(@))]]
  IN Sort(dated, ByEarliest(dated))

\* journeyData.map(d => d.year).filter(y => y)
Years(docs) == {docs[i].year : i \in DOMAIN docs} \ {0}

MathMin(S) == CHOOSE m \in S : \A x \in S : m <= x

MathMax(S) == CHOOSE m \in S : \A x \in S : x <= m

\* The value an <input type="range" min=lo max=hi step=1> takes when it is set
\* to v: the nearest value of its range, lo when the range is empty.
SliderValue(v, lo, hi) ==
  IF hi < lo \/ v < lo THEN lo ELSE IF v > hi THEN hi ELSE v

\* The characters the regular expression \s matches.
WhiteSpace == {" ", "\t", "\n"}

\* `docs-${location.name.replace(/\s/g, '-')}`
DocsId(name) ==
  <<"docs-">> \o [i \in DOMAIN name |-> IF name[i] \in WhiteSpace THEN "-" ELSE name[i]]

\* renderThemeCloud(location): one tag per theme, most frequent theme first.
RenderThemeCloud(location) ==
  LET byCount == [i \in DOMAIN location.themes, j \in DOMAIN location.themes |->
                    Len(location.themes[j].docs) - Len(location.themes[i].docs)]
      themes == Sort(location.themes, byCount)
  IN [k \in DOMAIN themes |->
        [location |-> location.name, theme |-> themes[k].theme,
         count |-> Len(themes[k].docs), active |-> FALSE]]

\* renderDocumentCard(doc): the card carries data-doc-id and no inline display.
RenderDocumentCard(doc) == [docId |-> doc.id, display |-> ""]

\* The .location-section built for a location: its theme tags, and the
\* .documents-list container with its id, its `visible` class and its cards.
Section(location) ==
  [location |-> location.name,
   tags |-> RenderThemeCloud(location),
   id |-> DocsId(location.name),
   visible |-> FALSE,
   cards |-> [k \in DOMAIN location.documents |->
                RenderDocumentCard(location.documents[k])]]

\* #locations-list after Object.values(locationGroups).forEach(...).
LocationsList(groups) == [g \in DOMAIN groups |-> Section(groups[g])]

NoEvent == [type |-> "none", section |-> 0, theme |-> "", wasActive |-> FALSE]

\* init() (part_000 29-50) when journey.json loads: groupByLocation(), buildUI().
InitJourney ==
  /\ journeyPc = "loading"
  /\ \E data \in JourneyInputs :
       /\ journeyData' = data
       /\ minYear' = MathMin(Years(data))
       /\ maxYear' = MathMax(Years(data))
       /\ currentYearRange' = <<minYear', maxYear'>>
       /\ locationGroups' = GroupDocs(data)
       /\ locationsList' = LocationsList(locationGroups')
       /\ yearSlider' = SliderValue(maxYear', minYear' + 4, maxYear')
  /\ journeyPc' = "grouped"
  /\ journeyEvent' = [NoEvent EXCEPT !.type = "init"]
  /\ JourneyOnly

\* init() when fetch or response.json() rejects: the catch shows the error.
InitJourneyFails ==
  /\ journeyPc = "loading"
  /\ journeyPc' = "failed"
  /\ journeyEvent' = [NoEvent EXCEPT !.type = "init"]
  /\ UNCHANGED <<journeyData, locationGroups, minYear, maxYear, currentYearRange,
                 locationsList, yearSlider>>
  /\ JourneyOnly

\* A mutant of InYearRange: only the end of the window is compared.
UpToEndYear(doc, startYear, endYear) == doc.year <= endYear

\* doc.year >= startYear && doc.year <= endYear
InYearRange(doc, startYear, endYear) == doc.year >= startYear /\ doc.year <= endYear

\* The values the slider can take: min = minYear + 4, max = maxYear, step = 1.
SliderValues == (minYear + 4)..maxYear

\* The `input` listener of #year-slider (part_000 262-273), with
\* filterByYearRange (276-323) and updateFilteredUI (325-372): the slider was
\* moved to another value, a decimal integer that parseInt reads back.
SliderInput ==
  /\ journeyPc \in {"grouped", "filtered"}
  /\ \E v \in SliderValues \ {yearSlider} :
       LET endYear == v
           startYear == endYear - 4
           filteredDocs == SelectSeq(journeyData,
                             LAMBDA doc : InYearRange(doc, startYear, endYear))
       IN /\ yearSlider' = v
          /\ currentYearRange' = <<startYear, endYear>>
          /\ locationGroups' = GroupDocs(filteredDocs)
          /\ locationsList' = LocationsList(locationGroups')
  /\ journeyPc' = "filtered"
  /\ journeyEvent' = [NoEvent EXCEPT !.type = "input"]
  /\ UNCHANGED <<journeyData, minYear, maxYear>>
  /\ JourneyOnly

\* document.getElementById(id): the first .documents-list of that id, 0 for null.
GetElementById(id) ==
  IF \E s \in DOMAIN locationsList : locationsList[s].id = id
  THEN CHOOSE s \in DOMAIN locationsList :
         /\ locationsList[s].id = id
         /\ \A r \in DOMAIN locationsList : locationsList[r].id = id => s <= r
  ELSE 0

\* journeyData.find(d => d.id === docId) followed by
\* doc && doc.themes.includes(theme)
HasTheme(docId, theme) ==
  /\ \E i \in DOMAIN journeyData : journeyData[i].id = docId
  /\ LET i == CHOOSE i \in DOMAIN journeyData :
                /\ journeyData[i].id = docId
                /\ \A j \in DOMAIN journeyData : journeyData[j].id = docId => i <= j
     IN theme \in Range(journeyData[i].themes)

\* The click listener setupThemeClicks puts on the t-th tag of the s-th
\* section (part_000 468-502).
ThemeClick(s, t) ==
  /\ journeyPc \in {"grouped", "filtered"}
  /\ s \in DOMAIN locationsList
  /\ t \in DOMAIN locationsList[s].tags
  /\ LET tag == locationsList[s].tags[t]
         docsContainer == GetElementById(DocsId(tag.location))
         wasActive == tag.active
         cleared == [locationsList EXCEPT ![s].tags =
                       [k \in DOMAIN @ |-> [@[k] EXCEPT !.active = FALSE]]]
     IN /\ locationsList' =
             IF wasActive
             THEN [cleared EXCEPT ![docsContainer].visible = FALSE]
             ELSE [cleared EXCEPT
                     ![s].tags[t].active = TRUE,
                     ![docsContainer].visible = TRUE,
                     ![docsContainer].cards =
                        [k \in DOMAIN @ |->
                           [docId |-> @[k].docId,
                            display |-> IF HasTheme(@[k].docId, tag.theme)
                                        THEN "block" ELSE "none"]]]
        /\ journeyEvent' = [type |-> "click", section |-> s, theme |-> tag.theme,
                            wasActive |-> wasActive]
  /\ UNCHANGED <<journeyPc, journeyData, locationGroups, minYear, maxYear,
                 currentYearRange, yearSlider>>
  /\ JourneyOnly

\* The module state of part_000 19-27 before init() ran.
JourneyInit ==
  /\ journeyPc = "loading"
  /\ journeyData = << >>
  /\ locationGroups = << >>
  /\ minYear = 1895
  /\ maxYear = 1930
  /\ currentYearRange = <<1895, 1930>>
  /\ locationsList = << >>
  /\ yearSlider = 1930
  /\ journeyEvent = NoEvent

JourneyNext ==
  \/ InitJourney
  \/ InitJourneyFails
  \/ SliderInput
  \/ \E s \in DOMAIN locationsList : \E t \in DOMAIN locationsList[s].tags : ThemeClick(s, t)

(***************************************************************************)
(*                   RadialChart  (src/src/radial.js)                      *)
(***************************************************************************)

\* A node of nodes.json as buildHierarchy reads it: id, type, and
\* properties.category and properties.subcategory ("" when undefined).
ChartNode(id, type, category, subcategory) ==
  [id |-> id, type |-> type, category |-> category, subcategory |-> subcategory]

\* The nodes nodes.json can hold, in the order of the file.
ChartNodePool ==
  << ChartNode("t1", "theme", "philosophical", "truth"),
     ChartNode("t2", "theme", "philosophical", "truth"),
     ChartNode("t3", "theme", "philosophical", "ethics"),
     ChartNode("t4", "theme", "social", "truth"),
     ChartNode("t5", "theme", "political", "truth"),
     ChartNode("d1", "document", "", "") >>

\* nodes.json: any of the nodes of the pool.
ChartNodeInputs ==
  {SelectSeq(ChartNodePool, LAMBDA n : n.id \in ids) :
     ids \in SUBSET {ChartNodePool[i].id : i \in DOMAIN ChartNodePool}}

\* edges.json: source and target are node ids.
ChartEdgeInputs ==
  SeqsUpTo({[source |-> "d1", target |-> "t1"], [source |-> "t1", target |-> "t4"],
            [source |-> "t4", target |-> "d1"]},
           MaxChartEdges)

\* metadata.themeHierarchy: the categories in the order of their keys, each
\* with the keys of category.themes, its subcategories.
ThemeHierarchyInputs ==
  LET categories == {[key |-> c, themes |-> subs] :
                       c \in {"philosophical", "social"},
                       subs \in {<< >>, <<"truth">>, <<"truth", "ethics">>}}
  IN {h \in SeqsUpTo(categories, 2) : \A i, j \in DOMAIN h : h[i].key = h[j].key => i = j}

\* this.nodes.find(n => n.id === id)?.type
TypeOf(ns, id) ==
  IF \E i \in DOMAIN ns : ns[i].id = id
  THEN ns[CHOOSE i \in DOMAIN ns :
            ns[i].id = id /\ \A j \in DOMAIN ns : ns[j].id = id => i <= j].type
  ELSE "undefined"

\* A mutant of ConnectedDocs: every edge at the theme.
EdgesAtTheme(ns, es, theme) ==
  SelectSeq(es, LAMBDA e : e.source = theme.id \/ e.target = theme.id)

\* connectedDocs: the edges at the theme with a document at either end.
ConnectedDocs(ns, es, theme) ==
  SelectSeq(es, LAMBDA e :
    /\ e.source = theme.id \/ e.target = theme.id
    /\ TypeOf(ns, e.source) = "document" \/ TypeOf(ns, e.target) = "document")

\* The theme nodes of a subcategory.
ThemeNodes(ns, categoryKey, subcategoryKey) ==
  SelectSeq(ns, LAMBDA n :
    n.type = "theme" /\ n.category = categoryKey /\ n.subcategory = subcategoryKey)

\* The node pushed to subcategoryNode.children for a theme.
ThemeLeaf(ns, es, theme) ==
  [id |-> theme.id,
   value |-> IF Len(ConnectedDocs(ns, es, theme)) # 0
             THEN Len(ConnectedDocs(ns, es, theme)) ELSE 1,
   category |-> theme.category,
   subcategory |-> theme.subcategory]

SubcategoryNode(ns, es, categoryKey, subcategoryKey) ==
  LET themeNodes == ThemeNodes(ns, categoryKey, subcategoryKey)
  IN [category |-> categoryKey, subcategory |-> subcategoryKey,
      children |-> [k \in DOMAIN themeNodes |-> ThemeLeaf(ns, es, themeNodes[k])]]

\* A mutant of Added: a node is pushed whatever children it has.
AlwaysAdded(node) == TRUE

\* if (node.children.length > 0): only then is the node pushed to its parent.
Added(node) == Len(node.children) > 0

CategoryNode(ns, es, category) ==
  [category |-> category.key,
   children |-> SelectSeq([k \in DOMAIN category.themes |->
                             SubcategoryNode(ns, es, category.key, category.themes[k])],
                          Added)]

\* buildHierarchy(): the root, with the categories that have subcategories.
BuildHierarchy(hierarchy, ns, es) ==
  [name |-> "Gandhi's Themes",
   children |-> SelectSeq([k \in DOMAIN hierarchy |-> CategoryNode(ns, es, hierarchy[k])],
                          Added)]

\* this.hierarchyData = null
NullHierarchy == [name |-> "null", children |-> << >>]

\* loadData(nodesPath, edgesPath, metadataPath) when the three files load.
ChartLoads(ns, es, h) ==
  /\ chartStage = "constructed"
  /\ chartNodes' = ns
  /\ chartEdges' = es
  /\ themeHierarchy' = h
  /\ hierarchyData' = BuildHierarchy(h, ns, es)
  /\ chartStage' = "loaded"

LoadChartData ==
  /\ chartStage = "constructed"
  /\ \E ns \in ChartNodeInputs, es \in ChartEdgeInputs, h \in ThemeHierarchyInputs :
       ChartLoads(ns, es, h)
  /\ RadialOnly

\* The chart after its constructor.
RadialInit ==
  /\ chartStage = "constructed"
  /\ chartNodes = << >>
  /\ chartEdges = << >>
  /\ themeHierarchy = << >>
  /\ hierarchyData = NullHierarchy

RadialNext == LoadChartData

(***************************************************************************)
(*            selectKeyDocuments  (src/src/journey.js 136-169)             *)
(***************************************************************************)

\* A journey point: the fields selectKeyDocuments reads.
KeyPoint(location, sortDate) == [location |-> location, sortDate |-> sortDate]

\* The points the lists are made of; a list may hold equal points, which are
\* different objects.
KeyPointPool ==
  {KeyPoint(l, d) : l \in {"Durban", "Pune"}, d \in {<<1900, 1>>, <<1910, 1>>}}

KeyInputs == SeqsUpTo(KeyPointPool, MaxPoints)

\* The target counts: 50 is the one createNarrative passes.
TargetCounts == {1, 3, 50}

\* selected.add(v): a Set holds an object once.
SetAdd(set, v) == IF v \in Range(set) THEN set ELSE Append(set, v)

\* A set of indices as the sequence of its elements, ascending.
Ascending(S) ==
  [k \in 1..Cardinality(S) |->
     CHOOSE i \in S : Cardinality({j \in S : j < i}) = k - 1]

\* A mutant of LocationFirstLast: `last` is never moved on.
LocationFirst(points) ==
  LET firsts == {i \in DOMAIN points :
                   \A j \in 1..(i - 1) : points[j].location # points[i].location}
  IN [k \in DOMAIN Ascending(firsts) |->
        [first |-> Ascending(firsts)[k], last |-> Ascending(firsts)[k]]]

\* Object.values(locationFirstLast) after the first forEach: for every
\* location, in the order the locations first occur, its first and its last
\* point.
LocationFirstLast(points) ==
  LET firsts == {i \in DOMAIN points :
                   \A j \in 1..(i - 1) : points[j].location # points[i].location}
  IN [k \in DOMAIN Ascending(firsts) |->
        LET f == Ascending(firsts)[k]
        IN [first |-> f,
            last |-> CHOOSE j \in DOMAIN points :
                       /\ points[j].location = points[f].location
                       /\ \A m \in DOMAIN points :
                            points[m].location = points[f].location => m <= j]]

\* The second forEach: first is added, and last when it is another object.
RECURSIVE AddFirstLast(_, _)
AddFirstLast(set, entries) ==
  IF entries = << >> THEN set
  ELSE LET e == entries[1]
           withFirst == SetAdd(set, e.first)
       IN AddFirstLast(IF e.first # e.last THEN SetAdd(withFirst, e.last) ELSE withFirst,
                       Tail(entries))

\* (a, b) => a.sortDate.localeCompare(b.sortDate) on the selected points.
ByKeySortDate(points, set) ==
  [a \in DOMAIN set, b \in DOMAIN set |->
     LocaleCompare(points[set[a]].sortDate, points[set[b]].sortDate)]

\* selectKeyDocuments(points, targetCount), up to the first test of the for
\* loop.
SelectKeyDocuments ==
  /\ keyPc = "idle"
  /\ \E points \in KeyInputs, targetCount \in TargetCounts :
       /\ keyPoints' = points
       /\ keyTargetCount' = targetCount
       /\ keySelected' = AddFirstLast(<< >>, LocationFirstLast(points))
       /\ keyStep' = Len(points) \div targetCount
  /\ keyI' = 0
  /\ keyPc' = "loop"
  /\ UNCHANGED keyResult
  /\ UNCHANGED <<kgVars, treeVars, journeyVars, radialVars, mainVars, timelineVars>>

\* i < points.length && selected.size < targetCount
LoopTest == keyI < Len(keyPoints) /\ Len(keySelected) < keyTargetCount

\* One pass of the for loop: selected.add(points[i]); i += step.
LoopBody ==
  /\ keyPc = "loop"
  /\ LoopTest
  /\ keySelected' = SetAdd(keySelected, keyI + 1)
  /\ keyI' = keyI + keyStep
  /\ UNCHANGED <<keyPc, keyPoints, keyTargetCount, keyStep, keyResult>>
  /\ UNCHANGED <<kgVars, treeVars, journeyVars, radialVars, mainVars, timelineVars>>

\* The loop test fails: the Set is turned into an array, sorted and returned.
ReturnSelected ==
  /\ keyPc = "loop"
  /\ ~LoopTest
  /\ keyResult' = Sort(keySelected, ByKeySortDate(keyPoints, keySelected))
  /\ keyPc' = "returned"
  /\ UNCHANGED <<keyPoints, keyTargetCount, keySelected, keyStep, keyI>>
  /\ UNCHANGED <<kgVars, treeVars, journeyVars, radialVars, mainVars, timelineVars>>

KeyInit ==
  /\ keyPc = "idle"
  /\ keyPoints = << >>
  /\ keyTargetCount = 0
  /\ keySelected = << >>
  /\ keyStep = 0
  /\ keyI = 0
  /\ keyResult = << >>

KeyNext == SelectKeyDocuments \/ LoopBody \/ ReturnSelected

(***************************************************************************)
(*                   The graph page  (src/src/main.js)                     *)
(***************************************************************************)

\* The three files chart.loadData asks d3.json for.
Files == {"nodes", "edges", "metadata"}

\* The names main.js declares or imports.
ModuleBindings == {"RadialChart", "CONFIG", "chart", "metadata"}

\* The methods of RadialChart.
ChartMethods ==
  {"init", "updateDimensions", "loadData", "buildHierarchy", "render",
   "getNodeRadius", "getNodeColor", "getNodeStroke", "getLinkColor", "getArcColor",
   "lightenColor", "onNodeClick", "onNodeHover", "onNodeOut", "highlightPath",
   "reset", "zoomIn", "zoomOut", "destroy"}

\* What evaluating `name.method(...)` in main.js does once init has assigned
\* chart: "ok" when the method of the chart is called, else the error thrown.
Call(name, method) ==
  IF name \notin ModuleBindings THEN "ReferenceError"
  ELSE IF name = "chart" /\ method \in ChartMethods THEN "ok"
  ELSE "TypeError"

\* The error a handler ends with, and the chart method it reached.
Raised(name, method) == IF Call(name, method) = "ok" THEN "none" ELSE Call(name, method)

Reached(name, method) == IF Call(name, method) = "ok" THEN method ELSE "none"

\* A mutant of PromiseAllResolves: only nodes.json is waited for.
NodesResolved(fs) == fs["nodes"] = "ok"

\* Promise.all([...]) resolves when the three requests have resolved.
PromiseAllResolves(fs) == \A f \in Files : fs[f] = "ok"

\* Promise.all([...]) rejects as soon as one request rejects.
PromiseAllRejects(fs) == \E f \in Files : fs[f] = "rejected"

\* One of the d3.json requests settles.
FileSettles ==
  /\ \E f \in Files, outcome \in {"ok", "rejected"} :
       /\ files[f] = "pending"
       /\ files' = [files EXCEPT ![f] = outcome]
  /\ UNCHANGED <<mainPc, loadingText, spinnerDisplay, loadingHidden, chartRendered,
                 listeners, fitTimeout, currentYear, searchResultsHidden,
                 mainEvent, mainError, invoked>>
  /\ UNCHANGED radialVars
  /\ MainOnly

\* init() after `await chart.loadData(...)` resolved (main.js 36-54):
\* chart.render(), updateStats(), setupEventListeners(), hideLoading() and
\* the fit-to-view timer.
InitResolves ==
  /\ mainPc = "loading"
  /\ PromiseAllResolves(files)
  /\ \E h \in ThemeHierarchyInputs : ChartLoads(ChartNodePool, << >>, h)
  /\ mainPc' = "ready"
  /\ chartRendered' = TRUE
  /\ listeners' = TRUE
  /\ loadingHidden' = TRUE
  /\ fitTimeout' = "pending"
  /\ UNCHANGED <<files, loadingText, spinnerDisplay, currentYear, searchResultsHidden,
                 mainEvent, mainError, invoked>>
  /\ MainOnly

\* init() after `await chart.loadData(...)` rejected (main.js 56-59):
\* showError('Failed to load data. Please refresh the page.').
InitRejects ==
  /\ mainPc = "loading"
  /\ PromiseAllRejects(files)
  /\ mainPc' = "failed"
  /\ loadingText' = "Failed to load data. Please refresh the page."
  /\ spinnerDisplay' = "none"
  /\ UNCHANGED <<files, loadingHidden, chartRendered, listeners, fitTimeout,
                 currentYear, searchResultsHidden, mainEvent, mainError, invoked>>
  /\ UNCHANGED radialVars
  /\ MainOnly

\* A handler that ends by evaluating name.method(...).
Handled(event, name, method) ==
  /\ mainEvent' = event
  /\ mainError' = Raised(name, method)
  /\ invoked' = Reached(name, method)
  /\ UNCHANGED <<mainPc, files, loadingText, spinnerDisplay, loadingHidden,
                 chartRendered, listeners>>
  /\ UNCHANGED radialVars
  /\ MainOnly

\* value.trim(): the text without its leading and trailing white space.
RECURSIVE Trim(_)
Trim(s) ==
  IF s = << >> THEN s
  ELSE IF Head(s) \in WhiteSpace THEN Trim(Tail(s))
  ELSE IF s[Len(s)] \in WhiteSpace THEN Trim(SubSeq(s, 1, Len(s) - 1))
  ELSE s

\* What is typed into #search-input, character by character.
Queries == {<<"g">>, <<" ", "g", " ">>, <<"g", "a">>, <<"s", "a", "l", "t">>}

\* The `input` listener of #search-input (main.js 102-112).
SearchInput ==
  /\ listeners
  /\ \E value \in Queries :
       IF Len(Trim(value)) < 2
       THEN /\ searchResultsHidden' = TRUE
            /\ mainEvent' = "search"
            /\ mainError' = "none"
            /\ invoked' = "none"
            /\ UNCHANGED <<mainPc, files, loadingText, spinnerDisplay, loadingHidden,
                           chartRendered, listeners>>
            /\ UNCHANGED radialVars
            /\ MainOnly
       ELSE /\ Handled("search", "graph", "searchNode")
            /\ searchResultsHidden' =
                 IF Call("graph", "searchNode") = "ok" THEN FALSE ELSE searchResultsHidden
  /\ UNCHANGED <<fitTimeout, currentYear>>

\* The `change` listener of a type-filter checkbox (main.js 124-131).
TypeFilterChange ==
  /\ listeners
  /\ Handled("types", "graph", "applyFilters")
  /\ UNCHANGED <<fitTimeout, currentYear, searchResultsHidden>>

\* The `input` listener of #timeline-slider (main.js 138-144).
TimelineInput ==
  /\ listeners
  /\ \E year \in {1900, 1948} : currentYear' = year
  /\ Handled("timeline", "graph", "applyFilters")
  /\ UNCHANGED <<fitTimeout, searchResultsHidden>>

\* The `click` listener of #reset-view (main.js 147-157): the controls are
\* reset after graph.reset() returned.
ResetViewClick ==
  /\ listeners
  /\ Handled("reset", "graph", "reset")
  /\ currentYear' = IF Call("graph", "reset") = "ok" THEN 0 ELSE currentYear
  /\ UNCHANGED <<fitTimeout, searchResultsHidden>>

\* The `click` listener of #zoom-in (main.js 160-162).
ZoomInClick ==
  /\ listeners
  /\ Handled("zoom-in", "chart", "zoomIn")
  /\ UNCHANGED <<fitTimeout, currentYear, searchResultsHidden>>

\* The timer init() sets for 1500 ms (main.js 49-52).
FitTimer ==
  /\ fitTimeout = "pending"
  /\ fitTimeout' = "fired"
  /\ Handled("fit", "graph", "zoomFit")
  /\ UNCHANGED <<currentYear, searchResultsHidden>>

\* main.js evaluated: init() has constructed the chart and awaits loadData.
MainInit ==
  /\ mainPc = "loading"
  /\ files = [f \in Files |-> "pending"]
  /\ loadingText = "Loading"
  /\ spinnerDisplay = ""
  /\ loadingHidden = FALSE
  /\ chartRendered = FALSE
  /\ listeners = FALSE
  /\ fitTimeout = "none"
  /\ currentYear = 0
  /\ searchResultsHidden = TRUE
  /\ mainEvent = "none"
  /\ mainError = "none"
  /\ invoked = "none"

MainNext ==
  \/ FileSettles
  \/ InitResolves
  \/ InitRejects
  \/ SearchInput
  \/ TypeFilterChange
  \/ TimelineInput
  \/ ResetViewClick
  \/ ZoomInClick
  \/ FitTimer

(***************************************************************************)
(*                           Specifications                                *)
(***************************************************************************)

\* Every page as loaded, before its data arrived.
Init ==
  KgInit /\ TreeInit /\ JourneyInit /\ RadialInit /\ MainInit /\ TimelineInit /\ KeyInit

\* The graph page: load, render, filter, reset.
GraphNext == LoadGraph \/ Render \/ ApplyFilters \/ Reset

SpecGraph == Init /\ [][GraphNext]_vars

\* calculateAverageYears on every bounded input.
AverageNext == LoadData

SpecAverage == Init /\ [][AverageNext]_vars

\* The graph while it is filtered and its nodes are clicked.
ViewNext == LoadView \/ Render \/ ApplyFilters \/ Reset \/ OnNodeClick

SpecView == Init /\ [][ViewNext]_vars

\* The graph while it is filtered and the simulation moves its nodes.
MoveNext == LoadMove \/ Render \/ ApplyFilters \/ Reset \/ Tick

SpecMove == Init /\ [][MoveNext]_vars

\* The tree explorer page.
SpecTree == Init /\ [][TreeNext]_vars

\* The tree explorer page while its window is resized.
SpecResize == Init /\ [][ResizeNext]_vars

\* The journey page.
SpecJourney == Init /\ [][JourneyNext]_vars

\* buildHierarchy over the files loadData can read.
SpecRadial == Init /\ [][RadialNext]_vars

\* The graph page.
SpecMain == Init /\ [][MainNext]_vars

\* getTimelineX over the nodes a graph can hold.
SpecTimeline == Init /\ [][TimelineNext]_vars

\* selectKeyDocuments on every bounded input.
SpecKey == Init /\ [][KeyNext]_vars

\* The same, with the for loop running on: a pass or the return that can be
\* taken is taken.
SpecKeyRuns == SpecKey /\ WF_vars(LoopBody) /\ WF_vars(ReturnSelected)

(***************************************************************************)
(*                     Claims about KnowledgeGraph                         *)
(***************************************************************************)

\* Both ends of the edge e are ids of nodes of this.nodes.
BothEndsIn(e, ns) ==
  /\ \E k \in DOMAIN ns : ns[k].id = e.source.id
  /\ \E k \in DOMAIN ns : ns[k].id = e.target.id

\* C1: after loadData and any applyFilters and reset calls, an original edge is
\* in `edges` exactly when its source id and its target id are both ids of
\* nodes of `nodes`; no edge of `edges` has an end that was filtered out.
C1_EdgesJoinVisibleNodes ==
  kgStage # "constructed" =>
    /\ \A j \in DOMAIN edges : BothEndsIn(edges[j], nodes)
    /\ \A i \in DOMAIN originalEdges :
         BothEndsIn(originalEdges[i], nodes) <=>
           \E j \in DOMAIN edges : edges[j] = originalEdges[i]
    /\ Len(edges) =
         Cardinality({i \in DOMAIN originalEdges : BothEndsIn(originalEdges[i], nodes)})

\* C1 witness: a filter removed a node, and the loaded edge with it.
C1_Witness ==
  /\ kgStage = "rendered"
  /\ Len(nodes) < Len(originalNodes)
  /\ Len(originalEdges) = 1
  /\ edges = << >>

\* C17: after applyFilters a node is in this.nodes exactly when it is a
\* document or its type is in filters.types, and it is not the case that a year
\* filter is set and the node has a year greater than it.
C17_VisibleNodes ==
  kgEvent \in {"applyFilters", "reset"} =>
    \A i \in DOMAIN originalNodes :
      LET n == originalNodes[i]
      IN (\E j \in DOMAIN nodes : nodes[j] = n) <=>
           /\ n.type = "document" \/ n.type \in filters.types
           /\ ~(filters.year # 0 /\ n.year # 0 /\ n.year > filters.year)

\* C17 witness: with only themes ticked and the slider at 1905, the document of
\* 1900 and the theme without a year are shown, the document of 1921 and the
\* period are not.
C17_Witness ==
  /\ kgEvent = "applyFilters"
  /\ filters = [types |-> {"theme"}, year |-> 1905]
  /\ IdsOf(originalNodes) = {"d1", "d2", "t1", "1910s"}
  /\ IdsOf(nodes) = {"d1", "t1"}

\* C18: after reset() the selection is null, the filters are the default ones,
\* and this.nodes and this.edges hold every loaded node and edge.
C18_ResetRestoresGraph ==
  kgEvent = "reset" =>
    /\ selectedNode = "null"
    /\ filters = DefaultFilters
    /\ nodes = originalNodes
    /\ edges = originalEdges

\* C18 witness: reset() cleared a selection and brought back a node that a
\* filter had removed (the simulation placed it anew).
C18_Witness ==
  /\ kgEvent = "reset"
  /\ clearedNode # "null"
  /\ Len(edges) = 2
  /\ \E i \in DOMAIN nodes :
       position[nodes[i].id] = InitializeNodes(nodes, i, Unplaced)

\* C19: applyFilters leaves x, y, vx and vy of every node that is in this.nodes
\* before and after the call as they were.
C19_PositionsPreserved ==
  [][kgEvent' \in {"applyFilters", "reset"} =>
       \A id \in IdsOf(nodes) \cap IdsOf(nodes') : position'[id] = position[id]]_vars

\* C19 witness: applyFilters ran on a graph whose document was moving, and
\* removed the theme before it was ever placed.
C19_Witness ==
  /\ kgEvent = "applyFilters"
  /\ IdsOf(nodes) = {"d1"}
  /\ position["d1"].vx # 0
  /\ position["d1"].x # StartPositions(originalNodes, CHOOSE sp \in Spreads(originalNodes) : TRUE)["d1"].x
  /\ position["t1"] = Unplaced

\* The node of this.nodes with the given id (ids are unique in nodes.json).
NodeById(id) == CHOOSE n \in Range(nodes) : n.id = id

RECURSIVE SumOf(_, _)
SumOf(S, f) ==
  IF S = {} THEN 0
  ELSE LET x == CHOOSE y \in S : TRUE IN f[x] + SumOf(S \ {x}, f)

\* a is sum / count rounded to the nearest integer, a half rounding up.
IsRounded(a, sum, count) == 2 * count * a - count <= 2 * sum /\ 2 * sum < 2 * count * a + count

\* The documents with a year that some edge connects to node n, at either end.
ConnectedDocuments(n) ==
  {d \in Range(nodes) :
     /\ d.type = "document" /\ d.year # 0
     /\ \E j \in DOMAIN edges :
          \/ edges[j].source.id = d.id /\ edges[j].target.id = n.id
          \/ edges[j].target.id = d.id /\ edges[j].source.id = n.id}

\* The ends of edges at which a document with a year is connected to node n:
\* <<j, id>> for edge j with the document id at one end and n at the other.
ConnectingEnds(n) ==
  {p \in (DOMAIN edges) \X IdsOf(nodes) :
     /\ NodeById(p[2]).type = "document" /\ NodeById(p[2]).year # 0
     /\ \/ edges[p[1]].source.id = p[2] /\ edges[p[1]].target.id = n.id
        \/ edges[p[1]].target.id = p[2] /\ edges[p[1]].source.id = n.id}

\* C3 as stated: after loadData, a theme or person node connected to at least
\* one document with a year has avgYear equal to the rounded average of the
\* years of the documents connected to it (each document once), and a theme or
\* person node with no such document has no avgYear.
C3_AverageOverDocuments ==
  kgStage = "loaded" =>
    \A n \in Range(nodes) : IsThemeOrPerson(n) =>
      LET D == ConnectedDocuments(n)
      IN IF D = {} THEN n.avgYear = 0
         ELSE IsRounded(n.avgYear, SumOf(D, [d \in D |-> d.year]), Cardinality(D))

\* C3 amended: the average is taken over the edges: each document with a year
\* counts once for every edge that connects it to the node.
C3_AverageOverEdges ==
  kgStage = "loaded" =>
    \A n \in Range(nodes) : IsThemeOrPerson(n) =>
      LET K == ConnectingEnds(n)
      IN IF K = {} THEN n.avgYear = 0
         ELSE IsRounded(n.avgYear, SumOf(K, [p \in K |-> NodeById(p[2]).year]),
                        Cardinality(K))

\* C3 witness: a node whose documents sit at the source of one edge and at the
\* target of another, with an average that ends in a half.
C3_Witness ==
  /\ kgStage = "loaded"
  /\ \E n \in Range(nodes) :
       /\ IsThemeOrPerson(n) /\ n.avgYear = 1911
       /\ \E j, k \in DOMAIN edges :
            /\ edges[j].target.id = n.id /\ edges[j].source.id = "d1"
            /\ edges[k].source.id = n.id /\ edges[k].target.id = "d2"

(***************************************************************************)
(*                      Claims about getTimelineX                          *)
(***************************************************************************)

\* The year of a positioned node: properties.year, or properties.avgYear for
\* a theme or a person; 0 when it has none.
YearOf(node) == IF node.type \in {"theme", "person"} THEN node.avgYear ELSE node.year

Positioned == {i \in DOMAIN timelineNodes : timelineNodes[i].type # "location"}

\* C12: the target x is a non-decreasing function of the node's year, year
\* 1884 maps to the left margin 100 and year 1929 to width - 100, and every
\* node's target x lies within [100, width - 100].
C12_TargetWithinMargins ==
  /\ \A i, j \in Positioned :
       (YearOf(timelineNodes[i]) # 0 /\ YearOf(timelineNodes[i]) <= YearOf(timelineNodes[j]))
         => timelineX[i] <= timelineX[j]
  /\ \A i \in Positioned :
       /\ YearOf(timelineNodes[i]) = 1884 => timelineX[i] = TimelineScale * 100
       /\ YearOf(timelineNodes[i]) = 1929 => timelineX[i] = TimelineScale * (timelineWidth - 100)
  /\ \A i \in DOMAIN timelineNodes :
       /\ TimelineScale * 100 <= timelineX[i]
       /\ timelineX[i] <= TimelineScale * (timelineWidth - 100)

(***************************************************************************)
(*                    Claims about the tree explorer                       *)
(***************************************************************************)

\* The nodes reached from the root through `children` or `_children` links.
Owned ==
  Reach([n \in TreeNodes |-> children[n] \o _children[n]], {1}, {1})

\* C2: after createVisualization and any node clicks and resetTree calls, every
\* node of the loaded hierarchy is reachable from the root through `children`
\* or `_children` links: a collapsed subtree is never discarded.
C2_NoSubtreeDiscarded == root => Owned = TreeNodes

\* C10: when the fetch of the tree data fails or returns a status that is not
\* ok, init shows an error message with the error text, buildUI and
\* createVisualization do not run (no hierarchy root), and resize events arm no
\* timer and cause no tree update.
C10_FailedFetchShowsError ==
  response \in {"rejected", "404", "500"} =>
    /\ initPc = "failed"
    /\ app = (CASE response = "rejected" -> "Error loading data: Failed to fetch"
                [] response = "404" -> "Error loading data: HTTP error! status: 404"
                [] response = "500" -> "Error loading data: HTTP error! status: 500")
    /\ ~root
    /\ treeData = NullTree
    /\ children = << >> /\ _children = << >>
    /\ layoutNodes = {}
    /\ resizeTimeout = "none"

\* C10 witness: the window was resized after a response with status 404.
C10_Witness == response = "404" /\ treeEvent = "resize"

\* C13: from any state reached by clicks and earlier resets, after resetTree
\* every node of depth > 0 is collapsed with its children parked in
\* `_children`, exactly as immediately after createVisualization.
C13_ResetRestoresInitialState ==
  treeEvent = "reset" =>
    /\ children = CollapsedChildren(treeData, Hierarchy(treeData))
    /\ _children = ParkedChildren(treeData, Hierarchy(treeData), NoLinks(treeData))

\* C14: a click on a non-document node toggles it: an expanded node becomes
\* collapsed with its children moved to `_children`, a collapsed node becomes
\* expanded with `_children` moved back to `children`, no other node changes,
\* and two clicks in a row on the same node restore `children` and
\* `_children` of every node.
C14_ClickToggles ==
  (clickRun.count >= 1 /\ clickRun.node \notin treeData.doc) =>
    LET d == clickRun.node
        before == clickRun
    IN /\ clickRun.count = 1 =>
            /\ before.children[d] # << >> =>
                 children[d] = << >> /\ _children[d] = before.children[d]
            /\ (before.children[d] = << >> /\ before._children[d] # << >>) =>
                 children[d] = before._children[d] /\ _children[d] = << >>
            /\ \A n \in TreeNodes \ {d} :
                 children[n] = before.children[n] /\ _children[n] = before._children[n]
       /\ clickRun.count = 2 =>
            children = before.children /\ _children = before._children

\* A node below the root was expanded by a click and collapsed again by a second one.
C14_Witness ==
  /\ clickRun.count = 2
  /\ clickRun.node # 1
  /\ clickRun.children[clickRun.node] = << >>
  /\ clickRun._children[clickRun.node] # << >>

\* C15: immediately after createVisualization all nodes except the root are
\* collapsed and only the root is shown: the nodes given to the layout are
\* exactly {root}.
C15_InitialLayoutIsRoot ==
  (treeEvent = "json" /\ root) =>
    /\ \A n \in TreeNodes \ {1} : children[n] = << >>
    /\ layoutNodes = {1}

\* C16: a click on a node that carries a document opens that document in the
\* viewer, leaves `children` and `_children` of every node unchanged and runs
\* no layout update.
C16_DocumentClickOpensViewer ==
  (clickRun.count >= 1 /\ clickRun.node \in treeData.doc) =>
    /\ viewerDoc = clickRun.node
    /\ children = clickRun.children
    /\ _children = clickRun._children
    /\ updateSource = 0

\* A document node was clicked.
C16_Witness ==
  /\ clickRun.count = 1
  /\ clickRun.node \in treeData.doc
  /\ treeEvent = "click"

\* C24: a burst of resize events that found the tree data loaded causes one
\* tree update, when ResizeDelay has passed since the last event of the burst,
\* with the width the container has at that moment.
C24_ResizeDebounced ==
  /\ burst.updates <= 1
  /\ (burst.updates = 1 \/ treeEvent = "timer") =>
       /\ burst.armed
       /\ burst.updates = 1
       /\ burst.sinceLast = ResizeDelay
       /\ configWidth = container
  /\ (burst.armed /\ burst.sinceLast = ResizeDelay /\ timers = << >>) =>
       burst.updates = 1
  /\ treeEvent = "timer" => updateSource = 1 /\ layoutNodes = Descendants(children)

\* C24 witness: a burst of two or more events ended with a narrower window,
\* and its one update took that width.
C24_Witness ==
  /\ treeEvent = "timer"
  /\ burst.events = 2
  /\ burst.updates = 1
  /\ container = 800
  /\ configWidth = 800

(***************************************************************************)
(*                 Claims about the geographic journey                     *)
(***************************************************************************)

\* The places <<g, k>> of locationGroups where the document stands.
Places(doc) ==
  {p \in UNION {{<<g, k>> : k \in DOMAIN locationGroups[g].documents} :
                  g \in DOMAIN locationGroups} :
     locationGroups[p[1]].documents[p[2]] = doc}

\* The documents of all the location groups.
GroupedDocuments == UNION {Range(locationGroups[g].documents) : g \in DOMAIN locationGroups}

\* How many documents of the group carry the theme.
Carrying(group, theme) ==
  Cardinality({k \in DOMAIN group.documents : theme \in Range(group.documents[k].themes)})

AllThemes == UNION {Range(doc.themes) : doc \in JourneyPoints}

\* C4: after groupByLocation the location groups partition the loaded
\* documents: every document stands in exactly one group, the one named after
\* its location, and no group is empty.
C4_GroupsPartitionDocuments ==
  journeyPc = "grouped" =>
    /\ \A i \in DOMAIN journeyData :
         /\ Cardinality(Places(journeyData[i])) = 1
         /\ \A p \in Places(journeyData[i]) :
              locationGroups[p[1]].name = journeyData[i].location
    /\ GroupedDocuments = Range(journeyData)
    /\ \A g \in DOMAIN locationGroups : locationGroups[g].documents # << >>

\* groupByLocation grouped documents of several locations, two of them of the
\* same location.
C4_Witness ==
  /\ journeyPc = "grouped"
  /\ Len(locationGroups) >= 2
  /\ \E g \in DOMAIN locationGroups : Len(locationGroups[g].documents) >= 2

\* The sortDate of the earliest document of a group.
EarliestDate(group) ==
  CHOOSE d \in {doc.sortDate : doc \in Range(group.documents)} :
    \A doc \in Range(group.documents) : LocaleCompare(d, doc.sortDate) <= 0

\* C5: after groupByLocation and after every filterByYearRange the documents
\* of each location group are in non-decreasing sortDate order, and the groups
\* are enumerated in non-decreasing order of their earliest document's sortDate.
C5_GroupsAndDocumentsSorted ==
  journeyPc \in {"grouped", "filtered"} =>
    /\ \A g \in DOMAIN locationGroups :
         \A k, l \in DOMAIN locationGroups[g].documents :
            k < l => LocaleCompare(locationGroups[g].documents[k].sortDate,
                                   locationGroups[g].documents[l].sortDate) <= 0
    /\ \A g, h \in DOMAIN locationGroups :
         g < h => LocaleCompare(EarliestDate(locationGroups[g]),
                                EarliestDate(locationGroups[h])) <= 0

\* The index of the document in journeyData.
Loaded(doc) == CHOOSE i \in DOMAIN journeyData : journeyData[i] = doc

\* filterByYearRange left a group whose documents were loaded in another order
\* than by date, and groups whose locations first occur in another order.
C5_Witness ==
  /\ journeyPc = "filtered"
  /\ \E g \in DOMAIN locationGroups :
       /\ Len(locationGroups[g].documents) >= 2
       /\ Loaded(locationGroups[g].documents[2]) < Loaded(locationGroups[g].documents[1])
  /\ \E g, h \in DOMAIN locationGroups :
       /\ g < h
       /\ \A a \in Range(locationGroups[g].documents) :
            \E b \in Range(locationGroups[h].documents) : Loaded(b) < Loaded(a)

\* C6: for every location group and every theme, the count on the theme tag,
\* the length of themes[theme], is the number of documents of the group that
\* carry the theme, and a theme has an entry only if a document of the group
\* carries it; after groupByLocation and after every filterByYearRange.
C6_ThemeCountsMatchDocuments ==
  journeyPc \in {"grouped", "filtered"} =>
    \A g \in DOMAIN locationGroups :
      LET group == locationGroups[g]
          tags == locationsList[g].tags
      IN /\ \A k, l \in DOMAIN group.themes :
              group.themes[k].theme = group.themes[l].theme => k = l
         /\ \A k \in DOMAIN group.themes :
              /\ Len(group.themes[k].docs) = Carrying(group, group.themes[k].theme)
              /\ Len(group.themes[k].docs) >= 1
         /\ \A theme \in AllThemes :
              Carrying(group, theme) >= 1 =>
                \E k \in DOMAIN group.themes : group.themes[k].theme = theme
         /\ {tags[t].theme : t \in DOMAIN tags} =
              {group.themes[k].theme : k \in DOMAIN group.themes}
         /\ \A t \in DOMAIN tags : tags[t].count = Carrying(group, tags[t].theme)

\* filterByYearRange left a group with a theme two documents carry and a
\* theme only one of them carries.
C6_Witness ==
  /\ journeyPc = "filtered"
  /\ \E g \in DOMAIN locationGroups :
       \E t, u \in DOMAIN locationsList[g].tags :
          /\ locationsList[g].tags[t].count = 2
          /\ locationsList[g].tags[u].count = 1

\* C7: after filterByYearRange(startYear, endYear) the documents of all the
\* location groups are exactly the loaded documents with
\* startYear <= year <= endYear, no group is empty, and the window is the
\* five years [endYear - 4, endYear] up to the slider's value.
C7_FilterKeepsYearWindow ==
  journeyPc = "filtered" =>
    /\ GroupedDocuments =
         {doc \in Range(journeyData) :
            currentYearRange[1] <= doc.year /\ doc.year <= currentYearRange[2]}
    /\ \A doc \in GroupedDocuments : Cardinality(Places(doc)) = 1
    /\ \A g \in DOMAIN locationGroups : locationGroups[g].documents # << >>
    /\ currentYearRange = <<yearSlider - 4, yearSlider>>

\* The window keeps a document and drops one dated before it and one dated
\* after it.
C7_Witness ==
  /\ journeyPc = "filtered"
  /\ GroupedDocuments # {}
  /\ \E doc \in Range(journeyData) : doc.year # 0 /\ doc.year < currentYearRange[1]
  /\ \E doc \in Range(journeyData) : doc.year > currentYearRange[2]

\* C8: after a click on an inactive theme tag of a location, the cards shown
\* for that location are exactly the cards of its documents that carry the
\* clicked theme; its other cards are hidden.
C8_ClickShowsThemeDocuments ==
  (journeyEvent.type = "click" /\ ~journeyEvent.wasActive) =>
    LET section == locationsList[journeyEvent.section]
        group == locationGroups[journeyEvent.section]
    IN /\ section.visible
       /\ \A k \in DOMAIN section.cards :
            section.cards[k].display =
              IF journeyEvent.theme \in Range(group.documents[k].themes)
              THEN "block" ELSE "none"

\* The tags of section s that carry the class `active`.
ActiveTags(s) ==
  {t \in DOMAIN locationsList[s].tags : locationsList[s].tags[t].active}

\* C25: in every location section at most one theme tag is active, and the
\* section's document list is visible exactly when one of its tags is
\* active, after any theme-tag clicks and slider changes; a slider change
\* leaves no tag active.
C25_OneActiveTagShowsList ==
  /\ \A s \in DOMAIN locationsList :
       /\ Cardinality(ActiveTags(s)) <= 1
       /\ locationsList[s].visible <=> ActiveTags(s) # {}
  /\ journeyEvent.type = "input" =>
       \A s \in DOMAIN locationsList : ActiveTags(s) = {}

(***************************************************************************)
(*                      Claims about RadialChart                           *)
(***************************************************************************)

\* The category nodes and the subcategory nodes of the hierarchy.
CategoryNodes == Range(hierarchyData.children)

SubcategoryNodes == UNION {Range(c.children) : c \in CategoryNodes}

\* The theme nodes whose (category, subcategory) is in themeHierarchy.
PlacedThemes ==
  {n \in Range(chartNodes) :
     /\ n.type = "theme"
     /\ \E k \in DOMAIN themeHierarchy :
          /\ themeHierarchy[k].key = n.category
          /\ n.subcategory \in Range(themeHierarchy[k].themes)}

\* The places <<c, s, t>> of the hierarchy where a leaf of that id stands.
LeafPlaces(id) ==
  {p \in UNION {UNION {{<<c, s, t>> :
                          t \in DOMAIN hierarchyData.children[c].children[s].children} :
                        s \in DOMAIN hierarchyData.children[c].children} :
                 c \in DOMAIN hierarchyData.children} :
     hierarchyData.children[p[1]].children[p[2]].children[p[3]].id = id}

\* No category and no subcategory has an empty children list.
NoEmptyBranch ==
  /\ \A c \in CategoryNodes : c.children # << >>
  /\ \A s \in SubcategoryNodes : s.children # << >>

\* Every leaf below a subcategory is a placed theme, and every placed theme
\* stands exactly once, under its category and its subcategory.
EachThemeOnce ==
  /\ \A s \in SubcategoryNodes : \A leaf \in Range(s.children) :
       \E n \in PlacedThemes : n.id = leaf.id
  /\ \A n \in PlacedThemes :
       /\ Cardinality(LeafPlaces(n.id)) = 1
       /\ \A p \in LeafPlaces(n.id) :
            /\ hierarchyData.children[p[1]].category = n.category
            /\ hierarchyData.children[p[1]].children[p[2]].category = n.category
            /\ hierarchyData.children[p[1]].children[p[2]].subcategory = n.subcategory

\* C9 as stated: the hierarchy is a root with three levels below it: every
\* leaf is a theme at depth 3 (so the root has children), no category or
\* subcategory has an empty children list, and each theme whose
\* (category, subcategory) is in themeHierarchy stands exactly once, under
\* that category and subcategory.
C9_ThreeLevelsBelowRoot ==
  chartStage = "loaded" =>
    /\ hierarchyData.children # << >>
    /\ NoEmptyBranch
    /\ EachThemeOnce

\* C9 amended: the root has children exactly when some theme's
\* (category, subcategory) is in themeHierarchy; then every leaf is a theme
\* at depth 3; with no such theme the hierarchy is the root alone.  No
\* category or subcategory has an empty children list, and each such theme
\* stands exactly once, under its category and subcategory.
C9_ThreeLevelsUnlessNoTheme ==
  chartStage = "loaded" =>
    /\ hierarchyData.children # << >> <=> PlacedThemes # {}
    /\ NoEmptyBranch
    /\ EachThemeOnce

\* buildHierarchy built two categories and left out a subcategory of
\* themeHierarchy that has no theme.
C9_Witness ==
  /\ chartStage = "loaded"
  /\ Len(hierarchyData.children) = 2
  /\ \E k \in DOMAIN themeHierarchy :
       Len(themeHierarchy[k].themes) = 2 /\ Len(hierarchyData.children[k].children) = 1
  /\ \E s \in SubcategoryNodes : Len(s.children) = 2

\* The theme leaves of the hierarchy.
ThemeLeaves ==
  UNION {UNION {Range(sub.children) : sub \in Range(cat.children)} :
           cat \in Range(hierarchyData.children)}

\* The edges of edges.json that join the theme with that id and a document
\* node of nodes.json.
DocumentEdges(id) ==
  {k \in DOMAIN chartEdges :
     \/ /\ chartEdges[k].source = id
        /\ \E n \in Range(chartNodes) :
             n.id = chartEdges[k].target /\ n.type = "document"
     \/ /\ chartEdges[k].target = id
        /\ \E n \in Range(chartNodes) :
             n.id = chartEdges[k].source /\ n.type = "document"}

\* C23: the value of a theme leaf is the number of edges between the theme and
\* a document node, or 1 when there is none; it is at least 1.
C23_LeafValueCountsDocuments ==
  \A leaf \in ThemeLeaves :
    /\ leaf.value = IF DocumentEdges(leaf.id) = {} THEN 1
                    ELSE Cardinality(DocumentEdges(leaf.id))
    /\ leaf.value >= 1

\* C23 witness: a document joined to a theme that is joined to a second theme;
\* the first theme counts its one document, the second has none and gets 1.
C23_Witness ==
  /\ chartStage = "loaded"
  /\ chartEdges = << [source |-> "d1", target |-> "t1"],
                     [source |-> "t1", target |-> "t4"] >>
  /\ DocumentEdges("t1") = {1}
  /\ DocumentEdges("t4") = {}
  /\ \E leaf \in ThemeLeaves : leaf.id = "t1" /\ leaf.value = 1
  /\ \E leaf \in ThemeLeaves : leaf.id = "t4" /\ leaf.value = 1

(***************************************************************************)
(*                     Claims about the graph page                         *)
(***************************************************************************)

\* C11: if loading nodes, edges or metadata fails during init, the loading
\* screen shows 'Failed to load data. Please refresh the page.' and is never
\* hidden, the chart is never rendered, and setupEventListeners never runs
\* (nor is the fit-to-view timer set).
C11_FailedLoadShowsError ==
  (\E f \in Files : files[f] = "rejected") =>
    /\ ~loadingHidden
    /\ ~chartRendered
    /\ ~listeners
    /\ fitTimeout = "none"
    /\ chartStage = "constructed"
    /\ mainPc # "loading" =>
         /\ mainPc = "failed"
         /\ loadingText = "Failed to load data. Please refresh the page."
         /\ spinnerDisplay = "none"

\* init() failed on metadata.json after nodes.json had loaded.
C11_Witness ==
  /\ mainPc = "failed"
  /\ files["nodes"] = "ok"
  /\ files["metadata"] = "rejected"

\* C20: after init completed, the search-input, type-filter, timeline-slider
\* and reset-view handlers and the delayed fit-to-view run their operation on
\* the chart init created and raise no error.
C20_HandlersReachChart ==
  mainEvent \in {"search", "types", "timeline", "reset", "fit"} =>
    /\ mainError = "none"
    /\ mainEvent = "types" => invoked = "applyFilters"
    /\ mainEvent = "timeline" => invoked = "applyFilters"
    /\ mainEvent = "reset" => invoked = "reset"
    /\ mainEvent = "fit" => invoked = "zoomFit"

(***************************************************************************)
(*                    Claims about selectKeyDocuments                      *)
(***************************************************************************)

\* The indices of the points of a location.
AtLocation(l) == {i \in DOMAIN keyPoints : keyPoints[i].location = l}

\* C21: the list selectKeyDocuments returns has no point twice, is ordered by
\* sortDate, and holds the first and the last point of every location.
C21_KeyDocumentsSelected ==
  keyPc = "returned" =>
    /\ \A a, b \in DOMAIN keyResult : keyResult[a] = keyResult[b] => a = b
    /\ \A a, b \in DOMAIN keyResult :
         a < b => LocaleCompare(keyPoints[keyResult[a]].sortDate,
                                keyPoints[keyResult[b]].sortDate) <= 0
    /\ \A i \in DOMAIN keyPoints :
         /\ MathMin(AtLocation(keyPoints[i].location)) \in Range(keyResult)
         /\ MathMax(AtLocation(keyPoints[i].location)) \in Range(keyResult)

\* C21 witness: three points of one location, the last of them the earliest;
\* the loop added the point in the middle and the sort moved the last one up.
C21_Witness ==
  /\ keyPc = "returned"
  /\ Len(keyPoints) = 3
  /\ AtLocation(keyPoints[1].location) = {1, 2, 3}
  /\ keySelected = <<1, 3, 2>>
  /\ keyI > 0
  /\ keyResult = <<3, 1, 2>>

\* C22: selectKeyDocuments, once called, returns.
C22_Terminates == (keyPc = "loop") ~> (keyPc = "returned")

====
